---- MODULE Spec2Model ----
(***************************************************************************)
(* A model of nix-store-gateway: the lookup engine (mirror resolver,       *)
(* origin resolver, upload, delete over the shared resolution cache) and   *)
(* the tee pipeline of the GET handler.                                    *)
(*                                                                         *)
(* The repository holds two implementations of the lookup engine:         *)
(*   - App      (src/src/app.rs):  the cache stores CacheItem values      *)
(*   - AppState (src/src/main.rs): the cache stores Option<String>        *)
(* The variable impl says which of the two a behaviour runs; it is chosen *)
(* in Init and never changes.  The tee pipeline exists in main.rs only.   *)
(***************************************************************************)
EXTENDS Integers, Sequences, FiniteSets, TLC

VARIABLES
    impl,       \* "app" (app.rs) or "main" (main.rs)
    cache,      \* path -> [item, age, by]: the moka cache, with each entry's age
    tasks,      \* task slot -> the call running in it
    tee,        \* the tee pipeline of one GET served from an origin (main.rs)
    libcall     \* a call of a function of sign.rs: its name, argument and result

\* ------------------------------------------------------------------ bounds

MaxTasks == 2       \* concurrent calls
MaxRaces == 1       \* lookups (get_mirror, get_origin) in flight at a time
MaxFrames == 3      \* items of an upstream body
MaxReqs == 2        \* requests one origin probe may issue (redirect hops, retries)
NumMirrors == 1     \* mirrors of the configuration
NumOrigins == 2     \* origins of the configuration
MaxInput == 2       \* bytes of a string given to percent_encode
MaxStream == 66     \* frames of a body longer than the upload channel (ChanCap)
Step == 150         \* seconds between two moments at which the clock is read
MaxElapsed == 1500  \* seconds a call is followed for, and a URL's age is counted to

\* ------------------------------------------------------- program constants

TTL == 300              \* App::TTL, seconds
AppState_TTL == 60      \* the cache's time_to_live in AppState::from_config, seconds
RaceTimeout == 2        \* the deadline of the mirror race in App::get_mirror, seconds
AppState_Expire == 600  \* the expire argument of sign_url in AppState, seconds
ChanCap == 64           \* the capacity of each mpsc channel of the tee

\* ------------------------------------------------------------------ values

Paths == {"/a"}
Tasks == 1..MaxTasks

\* a URL; age counts the seconds since sign_url made a presigned URL, whose
\* X-Amz-Date and X-Amz-Expires it carries
Url(kind, idx, path) == [kind |-> kind, idx |-> idx, path |-> path, age |-> 0]
NoUrl == Url("none", 0, "")
\* mirror.url.join(path)
MirrorUrl(i, p) == Url("mirror", i, p)
\* origin.url.join(path)
OriginUrl(j, p) == Url("origin", j, p)
\* aws_endpoint.join(path): the URL of the signed HEAD, PUT and DELETE
ObjectUrl(p) == Url("object", 0, p)
\* aws_signer.sign_url(aws_endpoint.join(path), ..): the presigned GET URL
PresignedUrl(p) == Url("presigned", 0, p)
\* a URL an origin names in a Location header
RedirectUrl(p) == Url("redirect", 0, p)

\* CacheItem (app.rs) and Option<String> (main.rs), and "no entry"
Item(tag, url) == [tag |-> tag, url |-> url]
NoItem == Item("absent", NoUrl)
CacheItem_Mirror(u) == Item("Mirror", u)
CacheItem_Origin(u) == Item("Origin", u)
CacheItem_NotExistMirror == Item("NotExistMirror", NoUrl)
CacheItem_NotExistOrigin == Item("NotExistOrigin", NoUrl)
Option_Some(u) == Item("Some", u)
Option_None == Item("None", NoUrl)

\* what a call returns
Res(tag, url) == [tag |-> tag, url |-> url]
NoRes == Res("none", NoUrl)

\* what the HTTP client's execute() yields: a response or a transport error
Statuses == {200, 302, 404}
Resp(status, loc) == [kind |-> "resp", status |-> status, loc |-> loc]
NetErr == [kind |-> "neterr", status |-> 0, loc |-> NoUrl]
Responses(p) ==
    {Resp(s, l) : s \in Statuses, l \in {NoUrl, RedirectUrl(p)}} \cup {NetErr}

\* (200..300).contains(&status)
Is2xx(status) == status >= 200 /\ status < 300
\* (300..400).contains(&status)
Is3xx(status) == status >= 300 /\ status < 400

\* a call of a function of sign.rs, and "no call"
Call(fn, arg, out) == [fn |-> fn, arg |-> arg, out |-> out]
NoCall == Call("none", <<>>, <<>>)

\* ------------------------------------------------------------------- cache

NoEntry == [item |-> NoItem, age |-> 0, by |-> "none"]

\* the time_to_live of the running implementation's cache
CacheTTL == IF impl = "app" THEN TTL ELSE AppState_TTL

\* cache.get(path): an entry that reached its time_to_live is not returned
cache_get(c, p) ==
    IF c[p].item # NoItem /\ c[p].age < CacheTTL THEN c[p].item ELSE NoItem

\* cache.insert(path, item): the entry is new; by notes the operation that
\* wrote it
cache_insert(c, p, item, by) ==
    [c EXCEPT ![p] = [item |-> item, age |-> 0, by |-> by]]

\* cache.remove(path)
cache_remove(c, p) == [c EXCEPT ![p] = NoEntry]

\* the expire argument of sign_url: Self::TTL * 5 in App, 600 s in AppState
Expire == IF impl = "app" THEN TTL * 5 ELSE AppState_Expire

\* a URL d seconds later: a presigned URL is d seconds older
later(u, d) ==
    IF u.kind = "presigned"
    THEN [u EXCEPT !.age = IF @ + d > MaxElapsed THEN MaxElapsed ELSE @ + d]
    ELSE u

\* the cache whose entry for p holds a URL that was signed e seconds before the
\* entry was inserted
signed_before(c, p, e) == [c EXCEPT ![p].item.url = later(@, e)]

\* ------------------------------------------------------------------- tasks

\* a probe of a race: its state, the URL it asks (and yields), the requests it
\* has issued, and the class of the last answer an origin probe got
Probe(st, url, reqs) == [st |-> st, url |-> url, reqs |-> reqs, last |-> "none"]
Answered(probe, last) == [probe EXCEPT !.last = last]

\* the HTTP response of a handler: its status and its Location header
Reply(status, location) == [status |-> status, location |-> location]
NoReply == Reply(0, NoUrl)

Idle ==
    [op |-> "idle", path |-> "", pc |-> "idle", probes |-> <<>>, elapsed |-> 0,
     res |-> NoRes, sent |-> 0, how |-> "none", wrote |-> FALSE,
     reply |-> NoReply]

\* the lookups (get_mirror, get_origin) that have started and not ended
LookupsInFlight ==
    Cardinality({t \in Tasks : tasks[t].op \in {"get_mirror", "get_origin"}
                                /\ tasks[t].pc # "done"})

Reverse(s) == [i \in 1..Len(s) |-> s[Len(s) + 1 - i]]

\* a race that gives up at the first failure (the behaviour of try_join_all, not
\* of select_ok): a probe that failed ends it, else the first Ok wins
select_first_settled(probes) ==
    LET oks == {i \in DOMAIN probes : probes[i].st = "ok"}
        first == CHOOSE i \in oks : \A k \in oks : i <= k
    IN  IF \E i \in DOMAIN probes : probes[i].st = "err"
        THEN [tag |-> "Err", url |-> NoUrl, idx |-> 0]
        ELSE IF oks # {} THEN [tag |-> "Ok", url |-> probes[first].url, idx |-> first]
        ELSE [tag |-> "Pending", url |-> NoUrl, idx |-> 0]

\* futures::future::select_ok over the probes, as one poll sees it: the first
\* probe of the list that is ready with Ok wins; failed probes are dropped; with
\* no probe left the race fails; otherwise it is pending
select_ok(probes) ==
    LET oks == {i \in DOMAIN probes : probes[i].st = "ok"}
        first == CHOOSE i \in oks : \A k \in oks : i <= k
    IN  IF oks # {} THEN [tag |-> "Ok", url |-> probes[first].url, idx |-> first]
        ELSE IF \A i \in DOMAIN probes : probes[i].st = "err"
             THEN [tag |-> "Err", url |-> NoUrl, idx |-> 0]
             ELSE [tag |-> "Pending", url |-> NoUrl, idx |-> 0]

\* tokio::time::timeout(2 s, select_ok(tasks)): the race is polled first, the
\* deadline second
timeout_select_ok(probes, elapsed) ==
    LET v == select_ok(probes)
    IN  IF v.tag # "Pending" THEN v
        ELSE IF elapsed >= RaceTimeout
             THEN [tag |-> "Elapsed", url |-> NoUrl, idx |-> 0]
             ELSE v

\* the body of one mirror or object-store probe: Ok(url) on a 2xx response
mirror_probe(probe, resp) ==
    IF resp.kind = "resp" /\ Is2xx(resp.status)
    THEN Probe("ok", probe.url, probe.reqs)
    ELSE Probe("err", probe.url, probe.reqs)

\* ------------------------------------------------- App::get_mirror (app.rs)

\* the probes of App::get_mirror in the order select_ok gets them: the mirrors,
\* then the object store (yielding the presigned GET URL), reversed
App_mirror_tasks(p) ==
    Reverse([i \in 1..NumMirrors |-> Probe("pending", MirrorUrl(i, p), 1)]
            \o <<Probe("pending", PresignedUrl(p), 1)>>)

\* the cache lookup of App::get_mirror, and the start of the race on a miss
App_get_mirror_start(t, p) ==
    LET hit == cache_get(cache, p)
        call == [Idle EXCEPT !.op = "get_mirror", !.path = p]
    IN  /\ impl = "app"
        /\ tasks[t].op = "idle"
        /\ LookupsInFlight < MaxRaces
        /\ tasks' = [tasks EXCEPT ![t] =
             IF hit.tag = "Mirror"
             THEN [call EXCEPT !.pc = "done", !.res = Res("Some", hit.url),
                               !.how = "cache"]
             ELSE IF hit.tag \in {"Origin", "NotExistOrigin", "NotExistMirror"}
             THEN [call EXCEPT !.pc = "done", !.res = Res("None", NoUrl),
                               !.how = "cache"]
             ELSE [call EXCEPT !.pc = "race", !.probes = App_mirror_tasks(p),
                               !.sent = NumMirrors + 1]]
        /\ UNCHANGED <<impl, libcall, cache, tee>>

\* what App::get_mirror caches and returns once the race has ended with v
App_get_mirror_finish(t, v) ==
    LET p == tasks[t].path
        item == IF v.tag = "Ok" THEN CacheItem_Mirror(v.url)
                ELSE CacheItem_NotExistMirror
    IN  /\ cache' = cache_insert(cache, p, item, "get_mirror")
        /\ tasks' = [tasks EXCEPT ![t] =
             [@ EXCEPT !.pc = "done", !.probes = <<>>, !.elapsed = 0,
                       !.res = IF v.tag = "Ok" THEN Res("Some", v.url)
                               ELSE Res("None", NoUrl),
                       !.how = v.tag]]

\* the race of App::get_mirror ends: a probe won, every probe failed, or the
\* deadline elapsed
App_get_mirror_poll(t) ==
    LET v == timeout_select_ok(tasks[t].probes, tasks[t].elapsed)
    IN  /\ impl = "app"
        /\ tasks[t].op = "get_mirror" /\ tasks[t].pc = "race"
        /\ v.tag # "Pending"
        /\ App_get_mirror_finish(t, v)
        /\ UNCHANGED <<impl, libcall, tee>>

\* -------------------------------------------- AppState::get_mirror (main.rs)

\* the probes of AppState::get_mirror: the mirrors, then the object store
AppState_mirror_tasks(p) ==
    [i \in 1..NumMirrors |-> Probe("pending", MirrorUrl(i, p), 1)]
    \o <<Probe("pending", PresignedUrl(p), 1)>>

\* the cache lookup of AppState::get_mirror, and the start of the race on a miss
AppState_get_mirror_start(t, p) ==
    LET hit == cache_get(cache, p)
        call == [Idle EXCEPT !.op = "get_mirror", !.path = p]
    IN  /\ impl = "main"
        /\ tasks[t].op = "idle"
        /\ LookupsInFlight < MaxRaces
        /\ tasks' = [tasks EXCEPT ![t] =
             IF hit.tag = "Some"
             THEN [call EXCEPT !.pc = "done", !.res = Res("Some", hit.url),
                               !.how = "cache"]
             ELSE IF hit.tag = "None"
             THEN [call EXCEPT !.pc = "done", !.res = Res("None", NoUrl),
                               !.how = "cache"]
             ELSE [call EXCEPT !.pc = "race", !.probes = AppState_mirror_tasks(p),
                               !.sent = NumMirrors + 1]]
        /\ UNCHANGED <<impl, libcall, cache, tee>>

\* what AppState::get_mirror caches and returns once the race has ended with v
AppState_get_mirror_finish(t, v) ==
    LET p == tasks[t].path
        item == IF v.tag = "Ok" THEN Option_Some(v.url) ELSE Option_None
    IN  /\ cache' = cache_insert(cache, p, item, "get_mirror")
        /\ tasks' = [tasks EXCEPT ![t] =
             [@ EXCEPT !.pc = "done", !.probes = <<>>, !.elapsed = 0,
                       !.res = IF v.tag = "Ok" THEN Res("Some", v.url)
                               ELSE Res("None", NoUrl),
                       !.how = v.tag]]

\* the race of AppState::get_mirror ends: it has no deadline
AppState_get_mirror_poll(t) ==
    LET v == select_ok(tasks[t].probes)
    IN  /\ impl = "main"
        /\ tasks[t].op = "get_mirror" /\ tasks[t].pc = "race"
        /\ v.tag # "Pending"
        /\ AppState_get_mirror_finish(t, v)
        /\ UNCHANGED <<impl, libcall, tee>>

\* a mirror or object-store probe of a running race gets its answer
MirrorProbeRespond(t, i, resp) ==
    /\ tasks[t].op = "get_mirror" /\ tasks[t].pc = "race"
    /\ i \in DOMAIN tasks[t].probes
    /\ tasks[t].probes[i].st = "pending"
    /\ tasks' = [tasks EXCEPT ![t].probes[i] = mirror_probe(@, resp)]
    /\ UNCHANGED <<impl, libcall, cache, tee>>

\* ------------------------------------------------------------- get_origin

\* the probes of get_origin in the order select_ok gets them: one per origin
origin_tasks(p) == [j \in 1..NumOrigins |-> Probe("pending", OriginUrl(j, p), 1)]

\* the loop of one origin probe of App::get_origin, on the answer to its request:
\*   if let Ok(resp) = execute(req) { match (status, location) {
\*       (200..=299, _) => return Ok(..), (300..=399, Some(l)) => url = l,
\*       _ => return Err(()) } }      -- and the loop goes round again
App_origin_probe(probe, resp) ==
    IF resp.kind = "resp"
    THEN IF Is2xx(resp.status)
         THEN Answered(Probe("ok", probe.url, probe.reqs), "2xx")
         ELSE IF Is3xx(resp.status) /\ resp.loc # NoUrl
              THEN Answered(Probe("pending", resp.loc, probe.reqs + 1), "redirect")
              ELSE Answered(Probe("err", probe.url, probe.reqs), "bad")
    ELSE Answered(Probe("pending", probe.url, probe.reqs + 1), "neterr")

\* the loop of one origin probe of AppState::get_origin: a 3xx with a Location
\* goes round again, a 2xx is Ok, another status is Err, and a transport error
\* breaks out of the loop to Err
AppState_origin_probe(probe, resp) ==
    IF resp.kind = "resp"
    THEN IF Is3xx(resp.status) /\ resp.loc # NoUrl
         THEN Answered(Probe("pending", resp.loc, probe.reqs + 1), "redirect")
         ELSE IF Is2xx(resp.status)
              THEN Answered(Probe("ok", probe.url, probe.reqs), "2xx")
              ELSE Answered(Probe("err", probe.url, probe.reqs), "bad")
    ELSE Answered(Probe("err", probe.url, probe.reqs), "neterr")

\* the probe loop of the running implementation
origin_probe(probe, resp) ==
    IF impl = "app" THEN App_origin_probe(probe, resp)
    ELSE AppState_origin_probe(probe, resp)

\* the cache lookup of App::get_origin: a cached URL is fetched, a cached
\* NotExistOrigin ends the call, anything else starts the race
App_get_origin_start(t, p) ==
    LET hit == cache_get(cache, p)
        call == [Idle EXCEPT !.op = "get_origin", !.path = p]
    IN  /\ impl = "app"
        /\ tasks[t].op = "idle"
        /\ LookupsInFlight < MaxRaces
        /\ tasks' = [tasks EXCEPT ![t] =
             IF hit.tag \in {"Mirror", "Origin"}
             THEN [call EXCEPT !.pc = "cached", !.sent = 1,
                               !.probes = <<Probe("pending", hit.url, 1)>>]
             ELSE IF hit.tag = "NotExistOrigin"
             THEN [call EXCEPT !.pc = "done", !.res = Res("None", NoUrl),
                               !.how = "cache"]
             ELSE [call EXCEPT !.pc = "race", !.probes = origin_tasks(p),
                               !.sent = NumOrigins]]
        /\ UNCHANGED <<impl, libcall, cache, tee>>

\* the GET of the cached URL has answered: a 2xx is returned, anything else
\* falls through to the race
App_get_origin_cached(t, resp) ==
    /\ impl = "app"
    /\ tasks[t].op = "get_origin" /\ tasks[t].pc = "cached"
    /\ tasks' = [tasks EXCEPT ![t] =
         IF resp.kind = "resp" /\ Is2xx(resp.status)
         THEN [@ EXCEPT !.pc = "done", !.probes = <<>>, !.how = "cached_get",
                        !.res = Res("Some", tasks[t].probes[1].url)]
         ELSE [@ EXCEPT !.pc = "race", !.probes = origin_tasks(tasks[t].path),
                        !.sent = @ + NumOrigins]]
    /\ UNCHANGED <<impl, libcall, cache, tee>>

\* the race of App::get_origin ends: the winner's URL is cached as Origin, or
\* NotExistOrigin when every probe failed
App_get_origin_poll(t) ==
    LET v == select_ok(tasks[t].probes)
        p == tasks[t].path
        item == IF v.tag = "Ok" THEN CacheItem_Origin(v.url)
                ELSE CacheItem_NotExistOrigin
    IN  /\ impl = "app"
        /\ tasks[t].op = "get_origin" /\ tasks[t].pc = "race"
        /\ v.tag # "Pending"
        /\ cache' = cache_insert(cache, p, item, "get_origin")
        /\ tasks' = [tasks EXCEPT ![t] =
             [@ EXCEPT !.pc = "done", !.probes = <<>>, !.elapsed = 0,
                       !.res = IF v.tag = "Ok" THEN Res("Some", v.url)
                               ELSE Res("None", NoUrl),
                       !.how = v.tag]]
        /\ UNCHANGED <<impl, libcall, tee>>

\* AppState::get_origin starts the race at once: it does not read the cache
AppState_get_origin_start(t, p) ==
    /\ impl = "main"
    /\ tasks[t].op = "idle"
    /\ LookupsInFlight < MaxRaces
    /\ tasks' = [tasks EXCEPT ![t] =
         [Idle EXCEPT !.op = "get_origin", !.path = p,
                      !.pc = "race", !.probes = origin_tasks(p),
                      !.sent = NumOrigins]]
    /\ UNCHANGED <<impl, libcall, cache, tee>>

\* the race of AppState::get_origin ends: nothing is cached
AppState_get_origin_poll(t) ==
    LET v == select_ok(tasks[t].probes)
    IN  /\ impl = "main"
        /\ tasks[t].op = "get_origin" /\ tasks[t].pc = "race"
        /\ v.tag # "Pending"
        /\ tasks' = [tasks EXCEPT ![t] =
             [@ EXCEPT !.pc = "done", !.probes = <<>>, !.elapsed = 0,
                       !.res = IF v.tag = "Ok" THEN Res("Some", v.url)
                               ELSE Res("None", NoUrl),
                       !.how = v.tag]]
        /\ UNCHANGED <<impl, libcall, cache, tee>>

\* an origin probe of a running race gets the answer to its request; a probe
\* that goes round its loop again issues one more request
OriginProbeRespond(t, j, resp) ==
    LET next == origin_probe(tasks[t].probes[j], resp)
    IN  /\ tasks[t].op = "get_origin" /\ tasks[t].pc = "race"
        /\ j \in DOMAIN tasks[t].probes
        /\ tasks[t].probes[j].st = "pending"
        /\ next.reqs <= MaxReqs
        /\ tasks' = [tasks EXCEPT ![t].probes[j] = next,
                                  ![t].sent = @ + (next.reqs - tasks[t].probes[j].reqs)]
        /\ UNCHANGED <<impl, libcall, cache, tee>>

\* the answers an origin gives a probe when it may also redirect to the URL of
\* an origin: redirects that form a cycle
HopResponses(p) ==
    Responses(p) \cup {Resp(302, OriginUrl(j, p)) : j \in 1..NumOrigins}

\* an origin probe of a running race gets the answer to its request, with the
\* count of its requests kept up to MaxReqs only: a probe at MaxReqs has issued
\* MaxReqs requests or more
OriginProbeHop(t, j, resp) ==
    LET next == origin_probe(tasks[t].probes[j], resp)
        more == next.reqs > tasks[t].probes[j].reqs /\ next.reqs <= MaxReqs
    IN  /\ tasks[t].op = "get_origin" /\ tasks[t].pc = "race"
        /\ j \in DOMAIN tasks[t].probes
        /\ tasks[t].probes[j].st = "pending"
        /\ tasks' = [tasks EXCEPT
              ![t].probes[j] = [next EXCEPT !.reqs = IF more THEN @ ELSE tasks[t].probes[j].reqs],
              ![t].sent = IF more THEN @ + 1 ELSE @]
        /\ UNCHANGED <<impl, libcall, cache, tee>>

\* ------------------------------------------------------ upload and delete

\* reqwest's Response::error_for_status: an error for a 4xx or 5xx status only
error_for_status(status) ==
    IF status >= 400 /\ status < 600 THEN "Err" ELSE "Ok"

\* the class of an answer of the object store, noted on the call it ended
answer_class(resp) ==
    IF resp.kind # "resp" THEN "neterr"
    ELSE IF Is2xx(resp.status) THEN "2xx"
    ELSE IF Is3xx(resp.status) THEN "3xx"
    ELSE "bad"

\* the note on an entry an upload wrote: the class of the PUT's status
upload_by(resp) == IF Is2xx(resp.status) THEN "upload_2xx" ELSE "upload_other"

\* an upload that caches the unsigned object URL instead of the presigned one
upload_item_unsigned(p) == CacheItem_Mirror(ObjectUrl(p))

\* what App::upload inserts for the path after the PUT
App_upload_item(p) == CacheItem_Mirror(PresignedUrl(p))

\* App::upload up to the PUT being in flight
App_upload_start(t, p) ==
    /\ impl = "app"
    /\ tasks[t].op = "idle"
    /\ tasks' = [tasks EXCEPT ![t] =
         [Idle EXCEPT !.op = "upload", !.path = p, !.pc = "put", !.sent = 1]]
    /\ UNCHANGED <<impl, libcall, cache, tee>>

\* the async block of App::upload once execute() has answered:
\*   client.execute(sign).await?.error_for_status()?; cache.insert(..); Ok(())
App_upload_finish(t, resp) ==
    LET p == tasks[t].path
        ok == resp.kind = "resp" /\ error_for_status(resp.status) = "Ok"
    IN  /\ impl = "app"
        /\ tasks[t].op = "upload" /\ tasks[t].pc = "put"
        /\ cache' = IF ok
                    THEN signed_before(
                           cache_insert(cache, p, App_upload_item(p), upload_by(resp)),
                           p, tasks[t].elapsed)
                    ELSE cache
        /\ tasks' = [tasks EXCEPT ![t] =
             [@ EXCEPT !.pc = "done", !.elapsed = 0, !.how = answer_class(resp),
                       !.res = IF ok THEN Res("Ok", NoUrl) ELSE Res("Err", NoUrl)]]
        /\ UNCHANGED <<impl, libcall, tee>>

\* what AppState::upload inserts for the path after a PUT that succeeded
AppState_upload_item(p) == Option_Some(PresignedUrl(p))

\* AppState::upload up to the PUT being in flight: cache.remove(&p) comes first
AppState_upload_start(t, p) ==
    /\ impl = "main"
    /\ tasks[t].op = "idle"
    /\ cache' = cache_remove(cache, p)
    /\ tasks' = [tasks EXCEPT ![t] =
         [Idle EXCEPT !.op = "upload", !.path = p, !.pc = "put", !.sent = 1,
                      !.wrote = TRUE]]
    /\ UNCHANGED <<impl, libcall, tee>>

\* the async block of AppState::upload once execute() has answered:
\*   let resp = client.execute(sign).await?;
\*   if resp.error_for_status().is_ok() { insert Some(geturl) } else { insert None }
\*   Ok(())
\* the cache it leaves
AppState_upload_cache(c, p, resp) ==
    IF resp.kind = "resp"
    THEN cache_insert(c, p, IF error_for_status(resp.status) = "Ok"
                            THEN AppState_upload_item(p) ELSE Option_None,
                      upload_by(resp))
    ELSE c

\* and the result it returns
AppState_upload_res(resp) ==
    IF resp.kind = "resp" THEN Res("Ok", NoUrl) ELSE Res("Err", NoUrl)

AppState_upload_finish(t, resp) ==
    /\ impl = "main"
    /\ tasks[t].op = "upload" /\ tasks[t].pc = "put"
    /\ cache' = IF resp.kind = "resp"
                THEN signed_before(AppState_upload_cache(cache, tasks[t].path, resp),
                                   tasks[t].path, tasks[t].elapsed)
                ELSE cache
    /\ tasks' = [tasks EXCEPT ![t] =
         [@ EXCEPT !.pc = "done", !.elapsed = 0, !.res = AppState_upload_res(resp),
                   !.how = answer_class(resp), !.wrote = FALSE]]
    /\ UNCHANGED <<impl, libcall, tee>>

\* App::delete up to the DELETE being in flight
App_delete_start(t, p) ==
    /\ impl = "app"
    /\ tasks[t].op = "idle"
    /\ tasks' = [tasks EXCEPT ![t] =
         [Idle EXCEPT !.op = "delete", !.path = p, !.pc = "del", !.sent = 1]]
    /\ UNCHANGED <<impl, libcall, cache, tee>>

\* App::delete once execute() has answered:
\*   self.client.execute(sign).await?.error_for_status()?; self.cache.remove(path)
App_delete_finish(t, resp) ==
    LET p == tasks[t].path
        ok == resp.kind = "resp" /\ error_for_status(resp.status) = "Ok"
    IN  /\ impl = "app"
        /\ tasks[t].op = "delete" /\ tasks[t].pc = "del"
        /\ cache' = IF ok THEN cache_remove(cache, p) ELSE cache
        /\ tasks' = [tasks EXCEPT ![t] =
             [@ EXCEPT !.pc = "done", !.how = answer_class(resp),
                       !.res = IF ok THEN Res("Ok", NoUrl) ELSE Res("Err", NoUrl)]]
        /\ UNCHANGED <<impl, libcall, tee>>

\* the answers the object store gives a PUT or a DELETE
StoreResponses == {Resp(s, NoUrl) : s \in Statuses} \cup {NetErr}

\* ------------------------------------------------ the handlers (main.rs)

\* the response of fetch, the HEAD handler, to the result u of get_mirror:
\*   if u.is_some() { StatusCode::OK } else { StatusCode::NOT_FOUND }
fetch(u) ==
    IF u.tag = "Some" THEN Reply(200, NoUrl) ELSE Reply(404, NoUrl)

\* fetch answers: its get_mirror has returned, and the handler responds
fetch_reply(t) ==
    /\ impl = "main"
    /\ tasks[t].op = "get_mirror" /\ tasks[t].pc = "done"
    /\ tasks' = [tasks EXCEPT ![t] =
         [Idle EXCEPT !.op = "HEAD", !.path = tasks[t].path, !.pc = "replied",
                      !.res = tasks[t].res, !.how = tasks[t].how,
                      !.reply = fetch(tasks[t].res)]]
    /\ UNCHANGED <<impl, libcall, cache, tee>>

\* the response of upload, the PUT handler, to the result r of AppState::upload:
\*   let _ = app.upload(..).await; StatusCode::OK
upload(r) == Reply(200, NoUrl)

\* upload answers: its AppState::upload has returned, and the handler responds
upload_reply(t) ==
    /\ impl = "main"
    /\ tasks[t].op = "upload" /\ tasks[t].pc = "done"
    /\ tasks' = [tasks EXCEPT ![t] =
         [Idle EXCEPT !.op = "PUT", !.path = tasks[t].path, !.pc = "replied",
                      !.res = tasks[t].res, !.how = tasks[t].how,
                      !.reply = upload(tasks[t].res)]]
    /\ UNCHANGED <<impl, libcall, cache, tee>>

\* ------------------------------------------- the tee of fetch_redir (main.rs)

\* an item of the upstream body: a data frame, or "ERR", an error of the stream
Frames == {"a", "b"}
UpstreamErr == "ERR"
\* the sentinel the producer puts on the upload channel when the client is gone
SendErr == "SENDERR"

RECURSIVE SeqsUpTo(_, _)
SeqsUpTo(S, n) ==
    IF n = 0 THEN {<<>>}
    ELSE LET shorter == SeqsUpTo(S, n - 1)
         IN  shorter \cup {Append(q, x) : q \in {r \in shorter : Len(r) = n - 1}, x \in S}

\* the bodies upstream may send
Bodies == SeqsUpTo(Frames \cup {UpstreamErr}, MaxFrames)

\* no tee runs
TeeOff ==
    [body |-> <<>>, up |-> <<>>, pc |-> "off", buf |-> "", tx |-> <<>>, tx2 |-> <<>>,
     client |-> "off", clientGot |-> <<>>, put |-> "off", upGot |-> <<>>]

\* fetch_redir has made both channels and spawned the producer and the upload:
\* nothing is read yet, the client is attached, the upload has not been polled
TeeStart(body) ==
    [TeeOff EXCEPT !.body = body, !.up = body, !.pc = "next",
                   !.client = "reading", !.put = "spawned"]

TeePath == "/a"

\* rx, the receiver of the client channel, lives while the response body is read
rx_open == tee.client = "reading"
\* rx2, the receiver of the upload channel, lives while the PUT reads its body
rx2_open == tee.put \in {"spawned", "streaming"}
\* tx and tx2 are dropped when the producer task ends or panics
senders_dropped == tee.pc \in {"end", "stopped", "panic"}

\* a channel that hands out the newest item first
send_front(q, v) == <<v>> \o q

\* mpsc::Sender::send on a channel whose receiver lives: the item joins the queue
send(q, v) == Append(q, v)

\* while let Some(v) = b.next().await: the producer takes the next upstream item,
\* or ends when upstream has ended
tee_next ==
    /\ tee.pc = "next"
    /\ tee' = IF tee.up = <<>> THEN [tee EXCEPT !.pc = "end"]
              ELSE [tee EXCEPT !.up = Tail(@), !.buf = Head(tee.up),
                               !.pc = IF Head(tee.up) = UpstreamErr
                                      THEN "err_tx2" ELSE "send_tx"]
    /\ UNCHANGED <<impl, libcall, cache, tasks>>

\* Ok(buf): tx.send(Ok(buf.clone())).await.is_ok() decides the branch; the send
\* waits while the channel is full and fails once the receiver is dropped
tee_send_tx ==
    /\ tee.pc = "send_tx"
    /\ IF rx_open
       THEN /\ Len(tee.tx) < ChanCap
            /\ tee' = [tee EXCEPT !.tx = send(@, tee.buf), !.pc = "send_tx2"]
       ELSE tee' = [tee EXCEPT !.pc = "abort_tx2"]
    /\ UNCHANGED <<impl, libcall, cache, tasks>>

\* the client took the frame: tx2.send(Ok(buf)).await.unwrap()
tee_send_tx2 ==
    /\ tee.pc = "send_tx2"
    /\ IF rx2_open
       THEN /\ Len(tee.tx2) < ChanCap
            /\ tee' = [tee EXCEPT !.tx2 = send(@, tee.buf), !.pc = "next"]
       ELSE tee' = [tee EXCEPT !.pc = "panic"]
    /\ UNCHANGED <<impl, libcall, cache, tasks>>

\* a producer that stops without telling the upload that the client is gone
tee_abort_silent ==
    /\ tee.pc = "abort_tx2"
    /\ tee' = [tee EXCEPT !.pc = "stopped"]
    /\ UNCHANGED <<impl, libcall, cache, tasks>>

\* the client is gone: let _ = tx2.send(Err("send error")).await; break
tee_abort_tx2 ==
    /\ tee.pc = "abort_tx2"
    /\ IF rx2_open
       THEN /\ Len(tee.tx2) < ChanCap
            /\ tee' = [tee EXCEPT !.tx2 = send(@, SendErr), !.pc = "stopped"]
       ELSE tee' = [tee EXCEPT !.pc = "stopped"]
    /\ UNCHANGED <<impl, libcall, cache, tasks>>

\* Err(e): tx2.send(Err(..)).await.unwrap()
tee_err_tx2 ==
    /\ tee.pc = "err_tx2"
    /\ IF rx2_open
       THEN /\ Len(tee.tx2) < ChanCap
            /\ tee' = [tee EXCEPT !.tx2 = send(@, UpstreamErr), !.pc = "err_tx"]
       ELSE tee' = [tee EXCEPT !.pc = "panic"]
    /\ UNCHANGED <<impl, libcall, cache, tasks>>

\* then tx.send(Err(e)).await.unwrap(), and the loop goes on
tee_err_tx ==
    /\ tee.pc = "err_tx"
    /\ IF rx_open
       THEN /\ Len(tee.tx) < ChanCap
            /\ tee' = [tee EXCEPT !.tx = send(@, UpstreamErr), !.pc = "next"]
       ELSE tee' = [tee EXCEPT !.pc = "panic"]
    /\ UNCHANGED <<impl, libcall, cache, tasks>>

\* the response body (ReceiverStream(rx)) yields the next item to the client; an
\* error item ends the response
client_recv ==
    /\ rx_open /\ tee.tx # <<>>
    /\ tee' = IF Head(tee.tx) = UpstreamErr
              THEN [tee EXCEPT !.clientGot = Append(@, Head(tee.tx)), !.tx = <<>>,
                               !.client = "errored"]
              ELSE [tee EXCEPT !.clientGot = Append(@, Head(tee.tx)), !.tx = Tail(@)]
    /\ UNCHANGED <<impl, libcall, cache, tasks>>

\* the channel is empty and every sender is dropped: the response body ends
client_end ==
    /\ rx_open /\ tee.tx = <<>> /\ senders_dropped
    /\ tee' = [tee EXCEPT !.client = "ended"]
    /\ UNCHANGED <<impl, libcall, cache, tasks>>

\* the client disconnects: the response body, and rx with it, is dropped
client_disconnect ==
    /\ rx_open
    /\ tee' = [tee EXCEPT !.client = "aborted", !.tx = <<>>]
    /\ UNCHANGED <<impl, libcall, cache, tasks>>

\* the spawned AppState::upload is polled: cache.remove(&p), then the PUT starts
\* reading its body from ReceiverStream(rx2)
tee_upload_start ==
    /\ tee.put = "spawned"
    /\ cache' = cache_remove(cache, TeePath)
    /\ tee' = [tee EXCEPT !.put = "streaming"]
    /\ UNCHANGED <<impl, libcall, tasks>>

\* a PUT that skips the error items of its body
tee_upload_recv_lenient ==
    /\ tee.put = "streaming" /\ tee.tx2 # <<>>
    /\ tee' = IF Head(tee.tx2) \in {UpstreamErr, SendErr}
              THEN [tee EXCEPT !.tx2 = Tail(@)]
              ELSE [tee EXCEPT !.upGot = Append(@, Head(tee.tx2)), !.tx2 = Tail(@)]
    /\ UNCHANGED <<impl, libcall, cache, tasks>>

\* the PUT takes the next item of its body; an error item fails the request:
\* execute() returns Err, and `?` ends the upload before any cache.insert
tee_upload_recv ==
    /\ tee.put = "streaming" /\ tee.tx2 # <<>>
    /\ tee' = IF Head(tee.tx2) \in {UpstreamErr, SendErr}
              THEN [tee EXCEPT !.upGot = Append(@, Head(tee.tx2)), !.tx2 = <<>>,
                               !.put = "failed"]
              ELSE [tee EXCEPT !.upGot = Append(@, Head(tee.tx2)), !.tx2 = Tail(@)]
    /\ UNCHANGED <<impl, libcall, cache, tasks>>

\* the upload channel is empty and every sender is dropped: the body is complete
tee_upload_body_end ==
    /\ tee.put = "streaming" /\ tee.tx2 = <<>> /\ senders_dropped
    /\ tee' = [tee EXCEPT !.put = "sent"]
    /\ UNCHANGED <<impl, libcall, cache, tasks>>

\* the object store answers the complete PUT, and AppState::upload ends
tee_upload_finish(resp) ==
    /\ tee.put = "sent"
    /\ cache' = AppState_upload_cache(cache, TeePath, resp)
    /\ tee' = [tee EXCEPT !.put =
                 IF resp.kind # "resp" THEN "failed"
                 ELSE IF error_for_status(resp.status) = "Ok" THEN "committed"
                 ELSE "rejected"]
    /\ UNCHANGED <<impl, libcall, tasks>>

\* the PUT ends before its body is complete: the connection to the object store
\* breaks, or the store answers early with an error status; the body (rx2) is
\* dropped
tee_upload_break(resp) ==
    /\ tee.put = "streaming"
    /\ resp.kind = "neterr" \/ error_for_status(resp.status) = "Err"
    /\ cache' = AppState_upload_cache(cache, TeePath, resp)
    /\ tee' = [tee EXCEPT !.tx2 = <<>>,
                          !.put = IF resp.kind = "neterr" THEN "failed" ELSE "rejected"]
    /\ UNCHANGED <<impl, libcall, tasks>>

\* ------------------------------------------------------------------- clock

\* time passes until the entry for p is as old as the next time_to_live of the
\* two caches (AppState's, then App's): the cache compares ages with these only
AgeEntry(p) ==
    /\ cache[p].item # NoItem
    /\ cache[p].age < TTL
    /\ cache' = [cache EXCEPT ![p].age =
                    IF @ < AppState_TTL THEN AppState_TTL ELSE TTL]
    /\ UNCHANGED <<impl, libcall, tasks, tee>>

\* the calls that are under way
running(t) == tasks[t].pc \notin {"idle", "done", "replied"}

\* the mirror races of App that are under way: each ends RaceTimeout seconds
\* after its start at the latest
App_races == {t \in Tasks : impl = "app" /\ tasks[t].op = "get_mirror" /\ running(t)}

\* d seconds pass: every call under way has run d seconds longer, the presigned
\* URLs it has made are d seconds older, and so are the entries of the cache and
\* the presigned URLs in them. The clock is read RaceTimeout seconds after the
\* start of a mirror race of App, which then ends before more time passes, and
\* every Step seconds otherwise; an entry's age is counted up to TTL
Tick(d) ==
    /\ \A t \in Tasks : running(t) => tasks[t].elapsed + d <= MaxElapsed
    /\ \A t \in App_races : tasks[t].elapsed + d <= RaceTimeout
    /\ d = RaceTimeout => App_races # {}
    /\ tasks' = [t \in Tasks |->
          IF running(t)
          THEN [tasks[t] EXCEPT
                  !.elapsed = @ + d,
                  !.probes = [i \in DOMAIN tasks[t].probes |->
                                [tasks[t].probes[i] EXCEPT !.url = later(@, d)]]]
          ELSE tasks[t]]
    /\ cache' = [p \in Paths |->
          IF cache[p].item = NoItem THEN cache[p]
          ELSE [cache[p] EXCEPT !.age = IF @ + d > TTL THEN TTL ELSE @ + d,
                                !.item.url = later(@, d)]]
    /\ UNCHANGED <<impl, libcall, tee>>

\* RaceTimeout seconds have passed since task t started its mirror race: in
\* App::get_mirror the timer of tokio::time::timeout is now due
Deadline(t) ==
    /\ tasks[t].op = "get_mirror" /\ tasks[t].pc = "race"
    /\ tasks[t].elapsed < RaceTimeout
    /\ tasks' = [tasks EXCEPT ![t].elapsed = RaceTimeout]
    /\ UNCHANGED <<impl, libcall, cache, tee>>

\* the caller takes the result; the slot is free for the next call
Return(t) ==
    /\ tasks[t].pc \in {"done", "replied"}
    /\ tasks' = [tasks EXCEPT ![t] = Idle]
    /\ UNCHANGED <<impl, libcall, cache, tee>>

\* the object store as the calls in sight have left it: a DELETE of p was
\* answered 2xx; an upload of p has returned Ok (its PUT may have stored p)
deleted(p) ==
    \E t \in Tasks : /\ tasks[t].op = "delete" /\ tasks[t].path = p
                     /\ tasks[t].pc = "done" /\ tasks[t].how = "2xx"
uploaded(p) ==
    \E t \in Tasks : /\ tasks[t].op = "upload" /\ tasks[t].path = p
                     /\ tasks[t].pc = "done" /\ tasks[t].res = Res("Ok", NoUrl)

\* a probe of a running mirror race gets its answer from a store that answers
\* the HEAD of an object it has deleted, and not received again, with no 2xx
StoreProbeRespond(t, i, resp) ==
    /\ MirrorProbeRespond(t, i, resp)
    /\ (/\ tasks[t].probes[i].url = PresignedUrl(tasks[t].path)
        /\ resp.kind = "resp" /\ Is2xx(resp.status))
       => (~deleted(tasks[t].path) \/ uploaded(tasks[t].path))

\* the caller of a lookup takes its result; the calls that changed the store
\* stay in sight
ReturnLookup(t) ==
    /\ tasks[t].op = "get_mirror"
    /\ Return(t)

\* ---------------------------------------------------------------- sign.rs

\* a URL as the signer reads it: host_str() ("" when the URL has no host),
\* port() (0 when it has none), path() and the query pairs
SignUrl(host, port, path, query) ==
    [host |-> host, port |-> port, path |-> path, query |-> query]

\* a reqwest::Request: method, URL, header map and the kind of its body
Request(method, url, headers, body) ==
    [method |-> method, url |-> url, headers |-> headers, body |-> body]

\* what a function of the signer yields: a value, or a panic
Out(kind, value) == [kind |-> kind, value |-> value]
NoOut == Out("none", <<>>)

\* HeaderMap::insert and query_pairs_mut().append_pair on a map from names
insert(m, k, v) == [n \in DOMAIN m \cup {k} |-> IF n = k THEN v ELSE m[n]]

\* the value of the host header: "{host}:{p}" with a port, else the host
host_header(url) == [host |-> url.host, port |-> url.port]

\* the payload hash of sign: the hash of the empty string without a body, the
\* hash of the bytes of a buffered body, UNSIGNED-PAYLOAD for a streamed body
payload(req) ==
    IF req.body = "none" THEN "sha256-of-empty"
    ELSE IF req.body = "bytes" THEN "sha256-of-body"
    ELSE "UNSIGNED-PAYLOAD"

\* the header names of the model in the order of BTreeMap<String, _>: ascending
\* by bytes
NameOrder ==
    <<"authorization", "content-length", "host", "x-amz-content-sha256", "x-amz-date">>

\* header_map.keys(): the names of the headers collected into the BTreeMap, in
\* its order
keys(headers) == SelectSeq(NameOrder, LAMBDA n : n \in DOMAIN headers)

\* the canonical request and the signature made of it with the signing key
canonical_request(method, url, headers, pay) ==
    [method |-> method, uri |-> IF url.path = "" THEN "/" ELSE url.path,
     query |-> url.query, headers |-> headers, signed |-> keys(headers),
     payload |-> pay]
signature(amz_date, canonical) == [date |-> amz_date, of |-> canonical]

\* Utc::now(), formatted
now == "now"

\* AwsSigner::sign: x-amz-content-sha256 and x-amz-date are set; a host header
\* is added when the request has none and the URL has a host; every header is
\* signed; Authorization is set; the request is returned
sign(req) ==
    LET h1 == insert(insert(req.headers, "x-amz-content-sha256", payload(req)),
                     "x-amz-date", now)
        h2 == IF "host" \notin DOMAIN h1 /\ req.url.host # ""
              THEN insert(h1, "host", host_header(req.url))
              ELSE h1
        auth == [signed_headers |-> keys(h2),
                 signature |-> signature(now,
                     canonical_request(req.method, req.url, h2, payload(req)))]
    IN  Out("Ok", [req EXCEPT !.headers = insert(h2, "authorization", auth)])

\* AwsSigner::sign_url: panics when the URL has no host; else appends the
\* X-Amz-* pairs, signs the GET of the URL with the host header alone, and
\* appends X-Amz-Signature
sign_url(url, expire) ==
    IF url.host = "" THEN Out("panic", <<>>)
    ELSE LET hs == [n \in {"host"} |-> host_header(url)]
             q1 == insert(insert(insert(insert(insert(url.query,
                      "X-Amz-Algorithm", "AWS4-HMAC-SHA256"),
                      "X-Amz-Credential", "credential"),
                      "X-Amz-Date", now),
                      "X-Amz-Expires", expire),
                      "X-Amz-SignedHeaders", keys(hs))
             u1 == [url EXCEPT !.query = q1]
             sg == signature(now, canonical_request("GET", u1, hs, "UNSIGNED-PAYLOAD"))
         IN  Out("Ok", [u1 EXCEPT !.query = insert(q1, "X-Amz-Signature", sg)])

\* percent_encoding::CONTROLS: the C0 controls and DEL
CONTROLS == (0..31) \cup {127}

\* SET: CONTROLS and the characters added to it, as bytes:
\*   space / : , ? # [ ] { } | @ ! $ & ' ( ) * + ; = % < > " ^ ` \
SET ==
    CONTROLS \cup {32, 47, 58, 44, 63, 35, 91, 93, 123, 125, 124, 64, 33, 36, 38,
                   39, 40, 41, 42, 43, 59, 61, 37, 60, 62, 34, 94, 96, 92}

\* a set that holds the listed characters and nothing else
listed_only(byte) == byte \in SET

\* AsciiSet::should_percent_encode: every byte that is not ASCII, and the
\* bytes of the set
should_percent_encode(byte) == byte >= 128 \/ byte \in SET

\* the digit d as an uppercase hexadecimal character
hex_upper(d) == IF d < 10 THEN 48 + d ELSE 65 + (d - 10)

\* percent_encode_byte: %XX
percent_encode_byte(byte) == <<37, hex_upper(byte \div 16), hex_upper(byte % 16)>>

\* percent_encode(input): the bytes of the input in order, each one as itself
\* or as its %XX
RECURSIVE percent_encode(_)
percent_encode(input) ==
    IF input = <<>> THEN <<>>
    ELSE (IF should_percent_encode(Head(input))
          THEN percent_encode_byte(Head(input))
          ELSE <<Head(input)>>) \o percent_encode(Tail(input))

\* the byte strings that are a &str: well-formed UTF-8
RECURSIVE IsUtf8(_)
IsUtf8(s) ==
    LET n == Len(s)
        cont(i) == i <= n /\ s[i] >= 128 /\ s[i] <= 191
        rest(k) == IsUtf8(SubSeq(s, k + 1, n))
    IN  IF n = 0 THEN TRUE
        ELSE IF s[1] < 128 THEN rest(1)
        ELSE IF s[1] >= 194 /\ s[1] <= 223 THEN cont(2) /\ rest(2)
        ELSE IF s[1] >= 224 /\ s[1] <= 239
             THEN /\ cont(2) /\ cont(3)
                  /\ (s[1] = 224 => s[2] >= 160)
                  /\ (s[1] = 237 => s[2] <= 159)
                  /\ rest(3)
        ELSE IF s[1] >= 240 /\ s[1] <= 244
             THEN /\ cont(2) /\ cont(3) /\ cont(4)
                  /\ (s[1] = 240 => s[2] >= 144)
                  /\ (s[1] = 244 => s[2] <= 143)
                  /\ rest(4)
        ELSE FALSE

\* the strings percent_encode is given
Inputs == {s \in SeqsUpTo(0..255, MaxInput) : IsUtf8(s)}

\* a call of percent_encode returns
percent_encode_call ==
    /\ libcall.fn = "percent_encode" /\ libcall.out = NoOut
    /\ libcall' = [libcall EXCEPT !.out = Out("Ok", percent_encode(libcall.arg))]
    /\ UNCHANGED <<impl, cache, tasks, tee>>

\* the requests and URLs the signer is given
Methods == {"GET", "HEAD", "PUT", "DELETE"}
Hosts == {"", "bucket.s3.local"}
Ports == {0, 9000}
NoQuery == [n \in {} |-> ""]
SignUrls == {SignUrl(h, p, "/a", NoQuery) : h \in Hosts, p \in Ports}
HeaderSets == SUBSET {"host", "content-length"}
Requests ==
    {Request(m, u, [n \in hs |-> "given"], b) :
        m \in Methods, u \in SignUrls, hs \in HeaderSets,
        b \in {"none", "bytes", "stream"}}
Expires == {600, 1500}

\* a call of sign returns
sign_call ==
    /\ libcall.fn = "sign" /\ libcall.out = NoOut
    /\ libcall' = [libcall EXCEPT !.out = sign(libcall.arg)]
    /\ UNCHANGED <<impl, cache, tasks, tee>>

\* a call of sign_url returns, or panics
sign_url_call ==
    /\ libcall.fn = "sign_url" /\ libcall.out = NoOut
    /\ libcall' = [libcall EXCEPT !.out = sign_url(libcall.arg[1], libcall.arg[2])]
    /\ UNCHANGED <<impl, cache, tasks, tee>>

\* ----------------------------------------------------------- specification

vars == <<impl, cache, tasks, tee, libcall>>

Init ==
    /\ impl \in {"app", "main"}
    /\ cache = [p \in Paths |-> NoEntry]
    /\ tasks = [t \in Tasks |-> Idle]
    /\ tee = TeeOff
    /\ libcall = NoCall

Next ==
    \/ \E t \in Tasks, p \in Paths : App_get_mirror_start(t, p)
    \/ \E t \in Tasks : App_get_mirror_poll(t)
    \/ \E t \in Tasks, p \in Paths : AppState_get_mirror_start(t, p)
    \/ \E t \in Tasks : AppState_get_mirror_poll(t)
    \/ \E t \in Tasks, i \in 1..(NumMirrors + 1), r \in StoreResponses :
          MirrorProbeRespond(t, i, r)
    \/ \E t \in Tasks, p \in Paths : App_upload_start(t, p)
    \/ \E t \in Tasks, r \in StoreResponses : App_upload_finish(t, r)
    \/ \E t \in Tasks, p \in Paths : AppState_upload_start(t, p)
    \/ \E t \in Tasks, r \in StoreResponses : AppState_upload_finish(t, r)
    \/ \E t \in Tasks, p \in Paths : App_delete_start(t, p)
    \/ \E t \in Tasks, r \in StoreResponses : App_delete_finish(t, r)
    \/ \E t \in Tasks, p \in Paths : App_get_origin_start(t, p)
    \/ \E t \in Tasks, r \in Responses("/a") : App_get_origin_cached(t, r)
    \/ \E t \in Tasks : App_get_origin_poll(t)
    \/ \E t \in Tasks, p \in Paths : AppState_get_origin_start(t, p)
    \/ \E t \in Tasks : AppState_get_origin_poll(t)
    \/ \E t \in Tasks, j \in 1..NumOrigins, r \in Responses("/a") :
          OriginProbeRespond(t, j, r)
    \/ \E t \in Tasks : fetch_reply(t)
    \/ \E t \in Tasks : upload_reply(t)
    \/ \E p \in Paths : AgeEntry(p)
    \/ \E t \in Tasks : Deadline(t)
    \/ \E t \in Tasks : Return(t)

Spec == Init /\ [][Next]_vars

\* App with an object store that holds the object at first: get_mirror, upload
\* and delete of the one path
InitDelete ==
    /\ impl = "app"
    /\ cache = [p \in Paths |-> NoEntry]
    /\ tasks = [t \in Tasks |-> Idle]
    /\ tee = TeeOff
    /\ libcall = NoCall

NextDelete ==
    \/ \E t \in Tasks, p \in Paths : App_get_mirror_start(t, p)
    \/ \E t \in Tasks : App_get_mirror_poll(t)
    \/ \E t \in Tasks, i \in 1..(NumMirrors + 1), r \in StoreResponses :
          StoreProbeRespond(t, i, r)
    \/ \E t \in Tasks, p \in Paths : App_upload_start(t, p)
    \/ \E t \in Tasks, r \in StoreResponses : App_upload_finish(t, r)
    \/ \E t \in Tasks, p \in Paths : App_delete_start(t, p)
    \/ \E t \in Tasks, r \in StoreResponses : App_delete_finish(t, r)
    \/ \E p \in Paths : AgeEntry(p)
    \/ \E t \in Tasks : Deadline(t)
    \/ \E t \in Tasks : ReturnLookup(t)

SpecDelete == InitDelete /\ [][NextDelete]_vars

\* get_mirror and upload as time passes: the presigned URLs they make grow old
\* while a PUT or a probe is under way and while they lie in the cache
NextFresh ==
    \/ \E t \in Tasks, p \in Paths : App_get_mirror_start(t, p)
    \/ \E t \in Tasks : App_get_mirror_poll(t)
    \/ \E t \in Tasks, p \in Paths : AppState_get_mirror_start(t, p)
    \/ \E t \in Tasks : AppState_get_mirror_poll(t)
    \/ \E t \in Tasks, i \in 1..(NumMirrors + 1), r \in StoreResponses :
          MirrorProbeRespond(t, i, r)
    \/ \E t \in Tasks, p \in Paths : App_upload_start(t, p)
    \/ \E t \in Tasks, r \in StoreResponses : App_upload_finish(t, r)
    \/ \E t \in Tasks, p \in Paths : AppState_upload_start(t, p)
    \/ \E t \in Tasks, r \in StoreResponses : AppState_upload_finish(t, r)
    \/ \E d \in {RaceTimeout, Step} : Tick(d)
    \/ \E t \in Tasks : Return(t)

SpecFresh == Init /\ [][NextFresh]_vars

\* the tee of one GET that AppState::get_mirror missed (it cached None) and
\* AppState::get_origin answered
InitTee ==
    /\ impl = "main"
    /\ cache = [p \in Paths |-> [item |-> Option_None, age |-> 0, by |-> "get_mirror"]]
    /\ tasks = [t \in Tasks |-> Idle]
    /\ tee \in {TeeStart(body) : body \in Bodies}
    /\ libcall = NoCall

NextTee ==
    \/ tee_next
    \/ tee_send_tx
    \/ tee_send_tx2
    \/ tee_abort_tx2
    \/ tee_err_tx2
    \/ tee_err_tx
    \/ client_recv
    \/ client_end
    \/ client_disconnect
    \/ tee_upload_start
    \/ tee_upload_recv
    \/ tee_upload_body_end
    \/ \E r \in StoreResponses : tee_upload_finish(r)
    \/ \E r \in StoreResponses : tee_upload_break(r)

SpecTee == InitTee /\ [][NextTee]_vars

\* the tee on a body of MaxStream frames, more than the upload channel holds,
\* with no upstream error and a client that stays: the upload may take an item
\* of its channel at any time, or take none
LongBody == [i \in 1..MaxStream |-> "a"]

InitBackpressure ==
    /\ impl = "main"
    /\ cache = [p \in Paths |-> [item |-> Option_None, age |-> 0, by |-> "get_mirror"]]
    /\ tasks = [t \in Tasks |-> Idle]
    /\ tee = TeeStart(LongBody)
    /\ libcall = NoCall

NextBackpressure ==
    \/ tee_next
    \/ tee_send_tx
    \/ tee_send_tx2
    \/ client_recv
    \/ client_end
    \/ tee_upload_start
    \/ tee_upload_recv
    \/ tee_upload_body_end
    \/ \E r \in StoreResponses : tee_upload_finish(r)

SpecBackpressure == InitBackpressure /\ [][NextBackpressure]_vars

\* get_origin alone, with origins that may redirect in a cycle. Every request
\* issued gets its answer, and a race that can end is polled: reqwest completes
\* each request with a response or an error, and tokio polls a woken task
NextHops ==
    \/ \E t \in Tasks, p \in Paths : App_get_origin_start(t, p)
    \/ \E t \in Tasks, r \in Responses("/a") : App_get_origin_cached(t, r)
    \/ \E t \in Tasks : App_get_origin_poll(t)
    \/ \E t \in Tasks, p \in Paths : AppState_get_origin_start(t, p)
    \/ \E t \in Tasks : AppState_get_origin_poll(t)
    \/ \E t \in Tasks, j \in 1..NumOrigins, r \in HopResponses("/a") :
          OriginProbeHop(t, j, r)
    \/ \E t \in Tasks : Return(t)

FairHops ==
    /\ \A t \in Tasks : WF_vars(App_get_origin_poll(t) \/ AppState_get_origin_poll(t))
    /\ \A t \in Tasks : WF_vars(\E r \in Responses("/a") : App_get_origin_cached(t, r))
    /\ \A t \in Tasks, j \in 1..NumOrigins :
          WF_vars(\E r \in HopResponses("/a") : OriginProbeHop(t, j, r))

SpecHops == Init /\ [][NextHops]_vars /\ FairHops

\* the functions of sign.rs, each called once on one of its inputs
InitSign ==
    /\ impl = "main"
    /\ cache = [p \in Paths |-> NoEntry]
    /\ tasks = [t \in Tasks |-> Idle]
    /\ tee = TeeOff
    /\ \/ libcall \in {Call("sign", r, NoOut) : r \in Requests}
       \/ libcall \in {Call("sign_url", <<u, e>>, NoOut) : u \in SignUrls, e \in Expires}
       \/ libcall \in {Call("percent_encode", i, NoOut) : i \in Inputs}

NextSign ==
    \/ sign_call
    \/ sign_url_call
    \/ percent_encode_call

SpecSign == InitSign /\ [][NextSign]_vars

\* ------------------------------------------------------------- properties

\* the step in which task t starts get_mirror(p): the cache lookup
get_mirror_starts(t, p) ==
    /\ tasks[t].op = "idle"
    /\ tasks'[t].op = "get_mirror" /\ tasks'[t].path = p

\* the step in which task t starts get_origin(p)
get_origin_starts(t, p) ==
    /\ tasks[t].op = "idle"
    /\ tasks'[t].op = "get_origin" /\ tasks'[t].path = p

\* the step in which the upload of task t ends: its PUT got its answer
upload_ends(t) ==
    /\ tasks[t].op = "upload" /\ tasks[t].pc = "put"
    /\ tasks'[t].pc = "done"

\* the positive entry of the running implementation's cache for URL u
positive(u) == IF impl = "app" THEN CacheItem_Mirror(u) ELSE Option_Some(u)

\* C1: cache coherence. An upload(p) whose PUT the object store answered 2xx
\* reports success and leaves the presigned GET URL of p in the cache; a
\* get_mirror(p) that starts while that entry is the cache's (nothing replaced
\* or removed it, and it has not reached its time to live) ends in its first
\* step with Some(presigned GET URL of p), having issued no request.
C1_cache_coherence ==
    [][\A t \in Tasks, p \in Paths :
          /\ (upload_ends(t) /\ tasks[t].path = p /\ tasks'[t].how = "2xx")
             => /\ tasks'[t].res = Res("Ok", NoUrl)
                /\ cache'[p] = [item |-> positive(PresignedUrl(p)), age |-> 0,
                                by |-> "upload_2xx"]
          /\ (/\ get_mirror_starts(t, p)
              /\ cache[p].by = "upload_2xx" /\ cache[p].age < CacheTTL)
             => /\ tasks'[t].pc = "done"
                /\ tasks'[t].res = Res("Some", PresignedUrl(p))
                /\ tasks'[t].sent = 0
    ]_vars

\* a get_mirror has answered from the entry a successful upload wrote
C1_witness ==
    \E t \in Tasks :
        /\ tasks[t].op = "get_mirror" /\ tasks[t].pc = "done"
        /\ tasks[t].how = "cache" /\ tasks[t].sent = 0
        /\ tasks[t].res = Res("Some", PresignedUrl(tasks[t].path))
        /\ cache[tasks[t].path].by = "upload_2xx"

\* C2: an upload(p) whose PUT ends with a transport error or a status that is
\* not 2xx reports a failure, and neither it nor the start of the call has
\* touched the cache: the entry for p is what it was before upload(p) started.
C2_failed_upload_leaves_cache ==
    [][\A t \in Tasks :
          (upload_ends(t) /\ tasks'[t].how # "2xx")
          => /\ tasks'[t].res = Res("Err", NoUrl)
             /\ cache' = cache
             /\ ~tasks[t].wrote
    ]_vars

\* the entries that make get_mirror answer None: App's Origin, NotExistMirror
\* and NotExistOrigin, AppState's None
negative_for_mirror(item) ==
    item.tag \in {"Origin", "NotExistMirror", "NotExistOrigin", "None"}

\* C3: negative caching on the mirror tier. A get_mirror(p) that starts while
\* the cache holds a negative entry for p that is younger than the TTL of five
\* minutes ends in its first step with None, having issued no request.
C3_negative_mirror_caching ==
    [][\A t \in Tasks, p \in Paths :
          (/\ get_mirror_starts(t, p)
           /\ negative_for_mirror(cache[p].item) /\ cache[p].age < TTL)
          => /\ tasks'[t].pc = "done"
             /\ tasks'[t].res = Res("None", NoUrl)
             /\ tasks'[t].sent = 0
    ]_vars

\* the race of get_mirror in task t ends without a winner: the call returns
\* None and the cache holds the mirror tier's negative entry for the path
get_mirror_gives_up(t) ==
    /\ App_get_mirror_poll(t) \/ AppState_get_mirror_poll(t)
    /\ tasks'[t].res = Res("None", NoUrl)
    /\ cache'[tasks[t].path].item \in {CacheItem_NotExistMirror, Option_None}

\* C4: the mirror deadline. Once RaceTimeout seconds have passed since the race
\* of a get_mirror started and no probe has succeeded, the call can end, whether
\* or not the probes still run: it returns None and caches the negative entry.
C4_mirror_deadline ==
    \A t \in Tasks :
        (/\ tasks[t].op = "get_mirror" /\ tasks[t].pc = "race"
         /\ tasks[t].elapsed >= RaceTimeout
         /\ \A i \in DOMAIN tasks[t].probes : tasks[t].probes[i].st # "ok")
        => ENABLED get_mirror_gives_up(t)

\* the step in which the race of the lookup in task t ends
race_ends(t) ==
    /\ tasks[t].op \in {"get_mirror", "get_origin"}
    /\ tasks[t].pc = "race" /\ tasks'[t].pc = "done"

\* the probes of task t that have succeeded
ok_probes(t) == {i \in DOMAIN tasks[t].probes : tasks[t].probes[i].st = "ok"}

\* C5: race wins. When the race of get_mirror or get_origin ends and exactly one
\* of its probes has succeeded, the call returns that probe's URL, wherever the
\* probe stands in the list and whatever the other probes did before it; and a
\* race ends without a winner only when every probe has failed or, for
\* App::get_mirror, when the deadline has passed with no probe successful: a
\* probe that fails early does not end the race.
C5_race_wins ==
    [][\A t \in Tasks :
          race_ends(t)
          => /\ \A i \in ok_probes(t) :
                   ok_probes(t) = {i}
                   => tasks'[t].res = Res("Some", tasks[t].probes[i].url)
             /\ tasks'[t].res = Res("None", NoUrl)
                => \/ \A i \in DOMAIN tasks[t].probes : tasks[t].probes[i].st = "err"
                   \/ /\ impl = "app" /\ tasks[t].op = "get_mirror"
                      /\ tasks[t].elapsed >= RaceTimeout
                      /\ ok_probes(t) = {}
    ]_vars

\* a get_origin has returned the URL of the last origin of the list, and a
\* get_mirror the URL of the last probe of its list: the probes listed before
\* the winner had failed or were still running
C5_witness ==
    /\ \E t \in Tasks :
          /\ tasks[t].op = "get_origin" /\ tasks[t].pc = "done"
          /\ tasks[t].how = "Ok"
          /\ tasks[t].res = Res("Some", OriginUrl(NumOrigins, tasks[t].path))
    /\ \E t \in Tasks :
          /\ tasks[t].op = "get_mirror" /\ tasks[t].pc = "done"
          /\ tasks[t].how = "Ok"
          /\ tasks[t].res = Res("Some", IF impl = "app"
                                        THEN MirrorUrl(1, tasks[t].path)
                                        ELSE PresignedUrl(tasks[t].path))

\* C6: an origin probe whose last request ended with a transport error, or with
\* a status that is neither 2xx nor a 3xx with a Location, has failed: it is an
\* error result of the race, and it has not issued the request again.
C6_origin_probe_fails ==
    \A t \in Tasks :
        (tasks[t].op = "get_origin" /\ tasks[t].pc = "race")
        => \A j \in DOMAIN tasks[t].probes :
              tasks[t].probes[j].last \in {"bad", "neterr"}
              => tasks[t].probes[j].st = "err"

\* C7: negative caching on the origin tier. A get_origin(p) whose every probe
\* failed returns None and leaves a new NotExistOrigin entry for p; a
\* get_origin(p) that starts while that entry is live ends in its first step
\* with None, having issued no request.
C7_negative_origin_caching ==
    [][\A t \in Tasks, p \in Paths :
          /\ (/\ race_ends(t) /\ tasks[t].op = "get_origin" /\ tasks[t].path = p
              /\ \A j \in DOMAIN tasks[t].probes : tasks[t].probes[j].st = "err")
             => /\ tasks'[t].res = Res("None", NoUrl)
                /\ cache'[p].item = CacheItem_NotExistOrigin
                /\ cache'[p].age = 0
          /\ (/\ get_origin_starts(t, p)
              /\ cache[p].item = CacheItem_NotExistOrigin /\ cache[p].age < TTL)
             => /\ tasks'[t].pc = "done"
                /\ tasks'[t].res = Res("None", NoUrl)
                /\ tasks'[t].sent = 0
    ]_vars

\* s is a prefix of q
IsPrefix(s, q) == Len(s) <= Len(q) /\ \A i \in 1..Len(s) : s[i] = q[i]

\* the upstream items among what the uploader received: all but the producer's
\* own sentinel, which can only come last
upstream_items(got) ==
    IF got # <<>> /\ got[Len(got)] = SendErr THEN SubSeq(got, 1, Len(got) - 1)
    ELSE got

\* C8: tee ordering. At every moment what the client has received, and what
\* the uploader has received of upstream, is a prefix of the upstream sequence:
\* nothing is lost, doubled or reordered. When upstream has ended and the
\* client's body has ended it has received the whole sequence, and a PUT whose
\* body has ended has received the whole sequence.
C8_tee_ordering ==
    /\ IsPrefix(tee.clientGot, tee.body)
    /\ IsPrefix(upstream_items(tee.upGot), tee.body)
    /\ (tee.pc = "end" /\ tee.client = "ended") => tee.clientGot = tee.body
    /\ tee.put \in {"sent", "committed"} => tee.upGot = tee.body

\* a body of MaxFrames frames has reached the client and the object store whole
C8_witness ==
    /\ Len(tee.body) = MaxFrames
    /\ tee.pc = "end" /\ tee.client = "ended" /\ tee.put = "committed"
    /\ tee.clientGot = tee.body /\ tee.upGot = tee.body

\* the client disconnected mid-stream: it had received a frame, and not yet
\* the whole body
client_aborted_midstream ==
    /\ tee.client = "aborted"
    /\ tee.clientGot # <<>> /\ tee.clientGot # tee.body

\* C9 as the specification states it: once the client has disconnected
\* mid-stream the PUT is not committed and the cache holds no URL for the path.
C9_client_abort_stated ==
    client_aborted_midstream
    => /\ tee.put # "committed"
       /\ cache[TeePath].item.tag # "Some"

\* C9: client abort, as the code has it. Once a send on the client channel has
\* failed (the producer saw that the client is gone) the producer stops: the
\* sentinel is the last item of the upload channel while the PUT still reads
\* its body, the PUT's body never ends normally, the PUT is not committed and
\* the cache holds no URL for the path.
C9_client_abort ==
    /\ tee.pc = "stopped"
       => /\ tee.put \notin {"sent", "committed"}
          /\ cache[TeePath].item.tag # "Some"
          /\ rx2_open => (tee.tx2 # <<>> /\ tee.tx2[Len(tee.tx2)] = SendErr)
    /\ tee.pc = "abort_tx2"
       => /\ tee.put \notin {"sent", "committed"}
          /\ cache[TeePath].item.tag # "Some"

\* the client left mid-stream, the producer saw it, and the PUT failed on the
\* sentinel
C9_witness ==
    /\ client_aborted_midstream
    /\ tee.pc = "stopped"
    /\ tee.put = "failed"
    /\ tee.upGot # <<>> /\ tee.upGot[Len(tee.upGot)] = SendErr
    /\ cache[TeePath].item.tag # "Some"

\* C10: a failure of the upload is not fatal for the client. When upstream
\* sends frames only, and the client stayed attached until its response body
\* ended, the client has received the whole upstream body, also when the PUT
\* has failed or gone away meanwhile.
C10_upload_failure_nonfatal ==
    (/\ \A i \in DOMAIN tee.body : tee.body[i] \in Frames
     /\ tee.client = "ended" /\ ~rx2_open)
    => tee.clientGot = tee.body

\* the number of items the producer has taken from upstream
taken == Len(tee.body) - Len(tee.up)

\* the places of the error items among the items taken
errors_taken == {i \in 1..taken : tee.body[i] = UpstreamErr}

\* C11: an upstream error stops the tee. Once the producer has taken an error
\* item from upstream and has dealt with it, it has taken nothing after it, and
\* the sentinel went to the client channel: a client that stayed attached saw
\* its response fail, it did not see the body end normally.
C11_upstream_error_stops ==
    (errors_taken # {} /\ tee.pc \notin {"err_tx2", "err_tx"})
    => /\ \A i \in errors_taken : i = taken
       /\ tee.client # "ended"

\* the step in which the delete of task t ends: its DELETE got its answer
delete_ends(t) ==
    /\ tasks[t].op = "delete" /\ tasks[t].pc = "del"
    /\ tasks'[t].pc = "done"

\* C12: delete(p). When the DELETE is answered 2xx the call succeeds and the
\* entry for p is removed, whatever it was, so that a get_mirror(p) that finds
\* the cache so starts its race; when the DELETE ends with any other status or
\* a transport error the call returns the error and the cache is unchanged.
C12_delete ==
    [][\A t \in Tasks, p \in Paths :
          /\ (delete_ends(t) /\ tasks[t].path = p)
             => IF tasks'[t].how = "2xx"
                THEN /\ tasks'[t].res = Res("Ok", NoUrl)
                     /\ cache' = [cache EXCEPT ![p] = NoEntry]
                ELSE /\ tasks'[t].res = Res("Err", NoUrl)
                     /\ cache' = cache
          /\ (get_mirror_starts(t, p) /\ cache[p] = NoEntry)
             => (tasks'[t].pc = "race" /\ tasks'[t].sent > 0)
    ]_vars

\* the step in which a handler of the given method answers from task t
handler_replies(t, method) ==
    /\ tasks[t].op # method
    /\ tasks'[t].op = method /\ tasks'[t].pc = "replied"

\* C13: HEAD /<key>. The handler answers 200 with the URL in a Location header
\* when its lookup hit, and it answers 404 only after get_origin has missed as
\* well: the call it answers 404 from is a get_origin that returned None.
C13_head_handler ==
    [][\A t \in Tasks :
          handler_replies(t, "HEAD")
          => IF tasks[t].res.tag = "Some"
             THEN tasks'[t].reply = Reply(200, tasks[t].res.url)
             ELSE /\ tasks'[t].reply.status = 404
                  /\ tasks[t].op = "get_origin"
    ]_vars

\* C14: PUT /<key>. The handler answers 200 when the PUT to the object store
\* was answered 2xx, and only then; after any other status or a transport error
\* it answers 500.
C14_put_handler ==
    \A t \in Tasks :
        (tasks[t].op = "PUT" /\ tasks[t].pc = "replied")
        => tasks[t].reply.status = (IF tasks[t].how = "2xx" THEN 200 ELSE 500)

\* the URL a call of the signer was given
signed_url_of(c) == IF c.fn = "sign" THEN c.arg.url ELSE c.arg[1]

\* C15: the signer's failure mode. A call of sign or sign_url on a URL that has
\* no host yields an error value: it does not panic, and it does not yield a
\* signed request or URL.
C15_signer_no_host ==
    (/\ libcall.fn \in {"sign", "sign_url"} /\ libcall.out # NoOut
     /\ signed_url_of(libcall).host = "")
    => libcall.out.kind = "Err"

\* the characters the specification lists, and the ASCII controls
listed_bytes ==
    (0..31) \cup {127}
    \cup {32, 47, 58, 44, 63, 35, 91, 93, 123, 125, 124, 64, 33, 36, 38, 39, 40,
          41, 42, 43, 59, 61, 37, 60, 62, 34, 94, 96, 92}

\* the unreserved characters: letters, digits, - . _ ~
unreserved_bytes == (65..90) \cup (97..122) \cup (48..57) \cup {45, 46, 95, 126}

\* the digit d in uppercase hexadecimal: 0-9, A-F
upper_hex_digit(d) == <<48, 49, 50, 51, 52, 53, 54, 55, 56, 57, 65, 66, 67, 68, 69, 70>>[d + 1]

\* out is the input with exactly the bytes of the set encoded replaced by
\* their %XX, and every other byte in place
RECURSIVE encodes(_, _, _)
encodes(encoded, input, out) ==
    IF input = <<>> THEN out = <<>>
    ELSE IF Head(input) \in encoded
    THEN /\ Len(out) >= 3
         /\ out[1] = 37
         /\ out[2] = upper_hex_digit(Head(input) \div 16)
         /\ out[3] = upper_hex_digit(Head(input) % 16)
         /\ encodes(encoded, Tail(input), SubSeq(out, 4, Len(out)))
    ELSE /\ Len(out) >= 1
         /\ out[1] = Head(input)
         /\ encodes(encoded, Tail(input), Tail(out))

\* C16 as the specification states it: a byte is replaced by its %XX exactly
\* when it is an ASCII control or a listed character; every other byte, the
\* bytes from 0x80 on too, is passed through.
C16_percent_encoder_stated ==
    (libcall.fn = "percent_encode" /\ libcall.out # NoOut)
    => encodes(listed_bytes, libcall.arg, libcall.out.value)

\* C16: the percent-encoder, as the code has it. A byte is replaced by its
\* %XX, in uppercase hexadecimal, exactly when it is an ASCII control, a listed
\* character, or a byte from 0x80 on; every other byte is passed through; a
\* string of unreserved characters only comes back unchanged.
C16_percent_encoder ==
    (libcall.fn = "percent_encode" /\ libcall.out # NoOut)
    => /\ libcall.out.kind = "Ok"
       /\ encodes(listed_bytes \cup (128..255), libcall.arg, libcall.out.value)
       /\ (\A i \in DOMAIN libcall.arg : libcall.arg[i] \in unreserved_bytes)
          => libcall.out.value = libcall.arg

\* the two bytes of U+00E9 have been encoded: %C3%A9
C16_witness ==
    /\ libcall.fn = "percent_encode"
    /\ libcall.arg = <<195, 169>>
    /\ libcall.out = Out("Ok", <<37, 67, 51, 37, 65, 57>>)

\* the entry for p is live and holds a URL
cached_url(p) ==
    /\ cache[p].age < CacheTTL
    /\ cache[p].item.tag \in {"Mirror", "Origin", "Some"}

\* C17: get_origin(p) on a cached URL. A get_origin(p) that starts while the
\* cache holds Mirror(u) or Origin(u) first issues one GET to u and nothing
\* else; when that GET is answered 2xx the call returns u and the cache is
\* unchanged; on any other answer a fresh race over all origins starts, and the
\* end of that race replaces the entry by Origin(u') or NotExistOrigin.
C17_get_origin_cached ==
    [][\A t \in Tasks, p \in Paths :
          /\ (get_origin_starts(t, p) /\ cached_url(p))
             => /\ tasks'[t].pc = "cached"
                /\ tasks'[t].sent = 1
                /\ tasks'[t].probes = <<Probe("pending", cache[p].item.url, 1)>>
          /\ (/\ tasks[t].op = "get_origin" /\ tasks[t].pc = "cached"
              /\ tasks[t].path = p /\ tasks'[t] # tasks[t])
             => \/ /\ tasks'[t].pc = "done"
                   /\ tasks'[t].res = Res("Some", tasks[t].probes[1].url)
                   /\ tasks'[t].sent = 1
                   /\ cache' = cache
                \/ /\ tasks'[t].pc = "race"
                   /\ tasks'[t].probes = origin_tasks(p)
                   /\ cache' = cache
          /\ (race_ends(t) /\ tasks[t].op = "get_origin" /\ tasks[t].path = p)
             => /\ cache'[p].age = 0
                /\ cache'[p].item =
                      (IF tasks'[t].res.tag = "Some"
                       THEN CacheItem_Origin(tasks'[t].res.url)
                       ELSE CacheItem_NotExistOrigin)
    ]_vars

\* C18: every origin probe terminates. When every request that is issued gets
\* its answer, a get_origin whose race has started returns: no probe follows
\* redirects, or repeats a request, for ever.
C18_get_origin_returns ==
    \A t \in Tasks :
        (tasks[t].op = "get_origin" /\ tasks[t].pc = "race")
        ~> (tasks[t].op = "get_origin" /\ tasks[t].pc = "done")

\* the URLs of the probes of task t that have succeeded
ok_urls(t) == {tasks[t].probes[i].url : i \in ok_probes(t)}

\* C19: object-store bias of the mirror race. When the race of get_mirror(p) ends
\* at a poll at which the object-store probe and a mirror probe have both
\* succeeded, get_mirror returns the presigned URL of p and caches it.
C19_object_store_bias ==
    [][\A t \in Tasks :
          (/\ race_ends(t) /\ tasks[t].op = "get_mirror"
           /\ PresignedUrl(tasks[t].path) \in ok_urls(t)
           /\ \E i \in 1..NumMirrors : MirrorUrl(i, tasks[t].path) \in ok_urls(t))
          => /\ tasks'[t].res = Res("Some", PresignedUrl(tasks[t].path))
             /\ cache'[tasks[t].path].item = positive(PresignedUrl(tasks[t].path))
    ]_vars

\* a step of the producer task of the tee
producer_step == tee_next \/ tee_send_tx \/ tee_send_tx2

\* C20: the tee takes backpressure from the client only. While the client waits
\* on its empty channel for frames upstream still holds, the producer can take a
\* step, whatever the upload has left in its open channel: an upload that stops
\* consuming never keeps a frame from the client.
C20_client_backpressure_only ==
    (/\ rx_open /\ rx2_open
     /\ tee.tx = <<>> /\ Len(tee.clientGot) < Len(tee.body))
    => ENABLED producer_step

\* the stream handed to the tee upload: the items it has taken and the items
\* that wait in its channel
upload_stream == tee.upGot \o tee.tx2

\* every item of q is a frame
all_frames(q) == \A i \in DOMAIN q : q[i] \in Frames

\* an error item: upstream's, or the producer's own sentinel
is_error(v) == v \in {UpstreamErr, SendErr}

\* the producer is over and did not forward a whole body of frames: upstream
\* gave an error, or the producer stopped (the client was gone) or panicked
\* with upstream items left
truncated ==
    /\ senders_dropped
    /\ ~all_frames(tee.body) \/ tee.up # <<>> \/ tee.pc # "end"

name_rank(n) ==
    CASE n = "authorization" -> 1
      [] n = "content-length" -> 2
      [] n = "host" -> 3
      [] n = "x-amz-content-sha256" -> 4
      [] n = "x-amz-date" -> 5

\* C22: sign computes the signature over the final header set. The SignedHeaders
\* list of the Authorization header of the request that sign returns holds host,
\* x-amz-date and x-amz-content-sha256 and every header the request had, in
\* ascending order of names, each once, and does not hold authorization; the
\* signature is made of the canonical request with these same headers.
C22_signed_headers ==
    (libcall.fn = "sign" /\ libcall.out # NoOut)
    => /\ libcall.out.kind = "Ok"
       /\ LET auth == libcall.out.value.headers["authorization"]
              sh == auth.signed_headers
              names == {sh[i] : i \in DOMAIN sh}
          IN  /\ {"host", "x-amz-date", "x-amz-content-sha256"} \subseteq names
              /\ DOMAIN libcall.arg.headers \subseteq names
              /\ "authorization" \notin names
              /\ \A i, j \in DOMAIN sh : i < j => name_rank(sh[i]) < name_rank(sh[j])
              /\ auth.signature.of.signed = sh
              /\ DOMAIN auth.signature.of.headers = names

\* C23: presigned URL freshness. Every presigned URL that get_mirror returns
\* from the cache is unexpired when it is returned: less time has passed since
\* sign_url made it than the expiry it was signed with, however long the upload
\* or the probe took that lies between the signing and the insertion.
C23_presigned_fresh ==
    [][\A t \in Tasks, p \in Paths :
          (/\ get_mirror_starts(t, p)
           /\ tasks'[t].how = "cache"
           /\ tasks'[t].res.tag = "Some" /\ tasks'[t].res.url.kind = "presigned")
          => tasks'[t].res.url.age < Expire
    ]_vars

\* the entry for p is the one a successful upload(p) wrote, and it lives
upload_entry(p) == cache[p].by = "upload_2xx" /\ cache[p].age < CacheTTL

\* C24: the result of an upload is not lost to concurrent lookups. While the
\* entry that a successful upload(p) wrote lives, a get_mirror(p) whose race is
\* under way issued its probes before the upload completed (it started on a
\* miss); when that race ends, the entry is not replaced by a negative entry
\* or by an Origin entry.
C24_upload_not_lost ==
    [][\A t \in Tasks :
          (/\ race_ends(t) /\ tasks[t].op = "get_mirror"
           /\ upload_entry(tasks[t].path))
          => ~negative_for_mirror(cache'[tasks[t].path].item)
    ]_vars

\* C25: no stale positive after delete. Once a delete(p) has returned success
\* (its DELETE was answered 2xx) and no upload(p) has succeeded, the cache holds
\* no Mirror entry with the presigned URL of p, whatever get_mirror(p) and
\* upload(p) calls were under way when the delete ran.
C25_no_stale_positive ==
    \A p \in Paths :
        (deleted(p) /\ ~uploaded(p))
        => cache[p].item # CacheItem_Mirror(PresignedUrl(p))

====
